---------------------------- MODULE Spec2Model ----------------------------
(***************************************************************************)
(* A model of the point-annotation dataset tools:                          *)
(*   GetPointCord.py        extract_target_points, save_to_txt             *)
(*   Batch_GetPointCord.py  process_directory                              *)
(*   Getlist.py             collect_pairs, split_train_val_test,           *)
(*                          build_subset, main                             *)
(*                                                                         *)
(* Four specifications share the definitions below:                        *)
(*   SpecSplit    split_train_val_test applied to bounded inputs           *)
(*   SpecMain     a run (and a re-run) of Getlist.py's main                *)
(*   SpecExtract  extract_target_points applied to bounded documents       *)
(*   SpecBatch    process_directory over a directory of JSON documents     *)
(***************************************************************************)
EXTENDS Integers, Sequences, FiniteSets, TLC

VARIABLES
    \* ---- Getlist.py ----
    pc,            \* position of main
    args,          \* "usage" | "badfloat" | "ok": what argv holds
    ratios,        \* <<train_ratio, val_ratio, test_ratio>> in units of 1/One
    imagesDir,     \* [ok |-> exists and is a directory, entries |-> set of image ids]
    txtDir,        \* [ok |-> ..., kind |-> [LabelStems -> "absent" | "file" | "dir"]]
    outRoot,       \* TRUE when the output root exists on disk
    mutations,     \* the set of filesystem mutations performed by the current run
    inOrder,       \* TRUE when images_dir.iterdir() returned the entries in sorted order
    pairs,         \* the result of collect_pairs (pairs named by their image id)
    reported,      \* [missing_txt |-> Nat, extra_txt |-> set of stems] printed by collect_pairs
    rng,           \* state of the global generator of module random
    split,         \* the result of split_train_val_test (NoSplit before it returns)
    manifests,     \* [SubsetNames -> sequence of manifest lines]
    exitReason,    \* why the run ended when pc = "exit"
    run,           \* number of the current run
    prev,          \* the previous complete run: its split, manifests, inOrder, startRng
    startRng,      \* the generator's state when the current process started
    \* ---- Batch_GetPointCord.py ----
    bpc,           \* position of process_directory
    json_count,    \* len(json_files)
    target_labels, \* None or a sequence of labels
    idx,           \* number of documents visited so far
    doc,           \* the document visited last
    outcome,       \* what happened to the document visited last
    coordinates,   \* what extract_target_points returned for it
    success_count,
    skip_count,
    error_count,
    written,       \* indices of the documents whose label file was written
    tally          \* the printed final tally, or NoTally

mainVars == <<pc, args, ratios, imagesDir, txtDir, outRoot, mutations, inOrder,
              pairs, reported, rng, split, manifests, exitReason, run, prev,
              startRng>>
batchVars == <<bpc, json_count, target_labels, idx, doc, outcome, coordinates,
               success_count, skip_count, error_count, written, tally>>
vars == <<mainVars, batchVars>>

-----------------------------------------------------------------------------
(* Bounds of the model *)

\* split_train_val_test is applied to every total in 1..MaxTotal ...
MaxTotal == 8
\* ... and to one large total (the reconciliation step of lines 151-153 only
\* matters for totals above 1/1e-3)
LargeTotal == 1500
\* at most this many entries in the image directory
MaxImages == 4
\* the generator's state when a process starts is any of 0..MaxStartRng
MaxStartRng == 1
\* number of runs of main over the same directories
MaxRuns == 2
\* process_directory visits at most this many JSON files
MaxFiles == 3
\* a document given to extract_target_points holds at most this many shapes
MaxShapes == 2
\* a document of a batch holds at most this many shapes
MaxBatchShapes == 1

(* Program constants *)

\* ratios are decimal fractions; the model counts them in ten-thousandths, so
\* 1.0 is One and the tolerance 1e-3 is Tolerance.  For every ratio value and
\* total of the model int(total * ratio) equals the exact floor.
One == 10000
Tolerance == 10
Seed == 42

None == "None"
NoSplit == [status |-> "none"]
NoTally == [printed |-> FALSE]

Max(a, b) == IF a >= b THEN a ELSE b
Min(a, b) == IF a <= b THEN a ELSE b
Abs(a) == IF a >= 0 THEN a ELSE 0 - a
Range(s) == {s[i] : i \in DOMAIN s}

-----------------------------------------------------------------------------
(* module random, as Getlist.py uses it: seed() and shuffle() *)

RngMod == 65536

\* random.seed(seed): the generator's state becomes a function of the seed alone
RandomSeed(state, seed) == (seed * 40503 + 1) % RngMod

\* the generator's state after k draws (a counter the output is hashed from)
RngAfter(state, k) == (state + k) % RngMod

\* random._randbelow(n) on the state just reached
RandBelow(state, n) == (((state * 25173 + 13849) % RngMod) \div 16) % n

Swap(x, i, j) == [x EXCEPT ![i] = x[j], ![j] = x[i]]

\* random.shuffle(x): for i in reversed(range(1, len(x))): j = randbelow(i + 1);
\* x[i], x[j] = x[j], x[i]   (positions are 1-based here).  ShuffleRange does the
\* steps i = hi, hi - 1, ..., lo of the loop; the step for position i is the
\* (Len(x) - i + 1)-th draw.  The loop is split in halves, and the upper half
\* is evaluated (its length read) before the lower one starts, to bound the
\* depth of the evaluation.
RECURSIVE ShuffleRange(_, _, _, _)
ShuffleRange(x, lo, hi, state) ==
    IF lo > hi THEN x
    ELSE IF lo = hi
    THEN Swap(x, lo, 1 + RandBelow(RngAfter(state, Len(x) - lo + 1), lo))
    ELSE LET mid == (lo + hi) \div 2
             upper == ShuffleRange(x, mid + 1, hi, state)
         IN IF Len(upper) = Len(x) THEN ShuffleRange(upper, lo, mid, state) ELSE x

RandomShuffle(x, state) ==
    [seq |-> ShuffleRange(x, 2, Len(x), state),
     rng |-> RngAfter(state, Max(Len(x) - 1, 0))]

-----------------------------------------------------------------------------
(* Getlist.py: split_train_val_test *)

\* s[lo:hi] of Python for 0 <= lo, 0 <= hi (both clamped to len(s))
PySlice(s, lo, hi) ==
    LET l == Min(lo, Len(s))
        h == Min(hi, Len(s))
    IN IF h <= l THEN <<>> ELSE SubSeq(s, l + 1, h)

\* int(total * ratio)
IntTimes(total, ratio) == (total * ratio) \div One

\* lines 109-117: every ratio in (0, 1) and the sum within 1e-3 of 1.0
RatiosValid(train_ratio, val_ratio, test_ratio) ==
    /\ \A r \in {train_ratio, val_ratio, test_ratio} : 0 < r /\ r < One
    /\ ~(Abs(train_ratio + val_ratio + test_ratio - One) > Tolerance)

\* lines 126-131
InitialTrainCount(total, train_ratio) == Max(1, IntTimes(total, train_ratio))
InitialValCount(total, val_ratio) == Max(1, IntTimes(total, val_ratio))

\* a variant that shrinks val before train
SplitCounts_ValFirst(total, train_ratio, val_ratio) ==
    LET train_count == InitialTrainCount(total, train_ratio)
        val_count == InitialValCount(total, val_ratio)
        remaining == total - train_count - val_count
        from == IF remaining > 0 THEN "nobody"
                ELSE IF val_count > 1 THEN "val"
                ELSE IF train_count > 1 THEN "train" ELSE "nobody"
        tc == IF from = "train" THEN train_count - 1 ELSE train_count
        vc == IF from = "val" THEN val_count - 1 ELSE val_count
    IN [ok |-> remaining > 0 \/ from # "nobody", from |-> from, candidate |-> remaining,
        train_count |-> tc, val_count |-> vc, test_count |-> total - tc - vc]

\* lines 134-153: the three counts, or the failure
SplitCounts(total, train_ratio, val_ratio) ==
    LET train_count == InitialTrainCount(total, train_ratio)
        val_count == InitialValCount(total, val_ratio)
        remaining == total - train_count - val_count
        borrowed ==
            IF remaining > 0
            THEN [ok |-> TRUE, from |-> "nobody",
                  train_count |-> train_count, val_count |-> val_count,
                  remaining |-> remaining]
            ELSE IF train_count > 1
            THEN [ok |-> TRUE, from |-> "train",
                  train_count |-> train_count - 1, val_count |-> val_count,
                  remaining |-> 1]
            ELSE IF val_count > 1
            THEN [ok |-> TRUE, from |-> "val",
                  train_count |-> train_count, val_count |-> val_count - 1,
                  remaining |-> 1]
            ELSE [ok |-> FALSE, from |-> "nobody",
                  train_count |-> train_count, val_count |-> val_count,
                  remaining |-> 1]
        test_count ==
            IF borrowed.train_count + borrowed.val_count + borrowed.remaining # total
            THEN total - borrowed.train_count - borrowed.val_count
            ELSE borrowed.remaining
    IN [ok |-> borrowed.ok, from |-> borrowed.from, candidate |-> remaining,
        train_count |-> borrowed.train_count, val_count |-> borrowed.val_count,
        test_count |-> test_count]

\* lines 156-158
TrainSlice(shuffled, train_count, val_count) == PySlice(shuffled, 0, train_count)
\* a variant whose val slice starts one position early
ValSlice_Overlap(shuffled, train_count, val_count) ==
    PySlice(shuffled, train_count - 1, train_count + val_count)
ValSlice(shuffled, train_count, val_count) ==
    PySlice(shuffled, train_count, train_count + val_count)
TestSlice(shuffled, train_count, val_count) ==
    PySlice(shuffled, train_count + val_count, Len(shuffled))

\* the whole function; state is the generator's state at the call
split_train_val_test(prs, train_ratio, val_ratio, test_ratio, seed, state) ==
    IF ~RatiosValid(train_ratio, val_ratio, test_ratio)
    THEN [status |-> "InvalidRatio", rng |-> state]
    ELSE LET sh == RandomShuffle(prs, RandomSeed(state, seed))
             c == SplitCounts(Len(prs), train_ratio, val_ratio)
         IN IF ~c.ok
            THEN [status |-> "InsufficientSamples", rng |-> sh.rng]
            ELSE [status |-> "ok", rng |-> sh.rng,
                  total |-> Len(prs), from |-> c.from, candidate |-> c.candidate,
                  train_count |-> c.train_count, val_count |-> c.val_count,
                  test_count |-> c.test_count,
                  train |-> TrainSlice(sh.seq, c.train_count, c.val_count),
                  val |-> ValSlice(sh.seq, c.train_count, c.val_count),
                  test |-> TestSlice(sh.seq, c.train_count, c.val_count)]

-----------------------------------------------------------------------------
(* Getlist.py: the directories *)

\* the entries an image directory may hold, in the order sorted() gives paths
ImageUniverse ==
    << [name |-> "a.jpg", stem |-> "a", suffix |-> ".jpg", isfile |-> TRUE],
       [name |-> "a.png", stem |-> "a", suffix |-> ".png", isfile |-> TRUE],
       [name |-> "b.JPG", stem |-> "b", suffix |-> ".JPG", isfile |-> TRUE],
       [name |-> "c.jpg", stem |-> "c", suffix |-> ".jpg", isfile |-> TRUE],
       [name |-> "d.gif", stem |-> "d", suffix |-> ".gif", isfile |-> TRUE],
       [name |-> "e.jpg", stem |-> "e", suffix |-> ".jpg", isfile |-> FALSE] >>
ImageIds == DOMAIN ImageUniverse

\* the stems of the entries <stem>.txt a label directory may hold; the entry of
\* stem "c" may be a subdirectory
LabelStems == {"a", "b", "c", "z"}
LabelKinds(stem) ==
    IF stem = "c" THEN {"absent", "file", "dir"} ELSE {"absent", "file"}

TxtName(stem) ==
    CASE stem = "a" -> "a.txt" [] stem = "b" -> "b.txt" [] stem = "c" -> "c.txt"
      [] stem = "d" -> "d.txt" [] stem = "e" -> "e.txt" [] OTHER -> "z.txt"

\* str.lower() on the suffixes of the universe
Lower(suffix) == IF suffix = ".JPG" THEN ".jpg" ELSE suffix

IMAGE_EXTENSIONS == {".jpg", ".jpeg", ".png", ".bmp", ".tiff", ".tif"}

is_image_file(id) ==
    ImageUniverse[id].isfile /\ Lower(ImageUniverse[id].suffix) \in IMAGE_EXTENSIONS

Stem(id) == ImageUniverse[id].stem

\* what the label directory holds under the name <stem>.txt
TxtKind(txt, stem) == IF stem \in DOMAIN txt.kind THEN txt.kind[stem] ELSE "absent"

\* txt_file.exists()
TxtExists(txt, stem) == TxtKind(txt, stem) # "absent"

\* line 65
TxtStems(txt) == {s \in DOMAIN txt.kind : txt.kind[s] = "file"}

\* all orders in which iterdir() may return a set of entries
Orders(S) ==
    {o \in [1..Cardinality(S) -> S] : \A i, j \in DOMAIN o : i # j => o[i] # o[j]}

\* sorted(images_dir.iterdir()): the entries in path order
RECURSIVE SortIds(_)
SortIds(S) ==
    IF S = {} THEN <<>>
    ELSE LET m == CHOOSE x \in S : \A y \in S : x <= y
         IN <<m>> \o SortIds(S \ {m})

\* a variant that takes the entries as iterdir() returned them
SortedListing_Unsorted(order) == order

SortedListing(order) == SortIds(Range(order))

\* line 74
HasTxt(txt, id) == TxtExists(txt, Stem(id))

\* lines 53-98; order is what iterdir() returned
collect_pairs(images, txt, order) ==
    IF ~images.ok \/ ~txt.ok
    THEN [status |-> "DirectoryNotFound", pairs |-> <<>>,
          missing_txt |-> 0, extra_txt |-> {}]
    ELSE LET imgs == SelectSeq(SortedListing(order), is_image_file)
             keep(id) == HasTxt(txt, id)
             drop(id) == ~HasTxt(txt, id)
             prs == SelectSeq(imgs, keep)
             image_stems == {Stem(prs[i]) : i \in DOMAIN prs}
         IN [status |-> IF prs = <<>> THEN "NoValidPairs" ELSE "ok",
             pairs |-> prs,
             missing_txt |-> Len(SelectSeq(imgs, drop)),
             extra_txt |-> TxtStems(txt) \ image_stems]

-----------------------------------------------------------------------------
(* Getlist.py: build_subset *)

SubsetNames == {"train", "val", "test"}

Mkdir(subset, stem) == [op |-> "mkdir", subset |-> subset, stem |-> stem, name |-> ""]
Copy(subset, stem, name) == [op |-> "copy", subset |-> subset, stem |-> stem, name |-> name]
Write(subset) == [op |-> "write", subset |-> subset, stem |-> "", name |-> ".list"]
MkdirRoot == Mkdir("", "")

\* shutil.copy2 of the label raises when <stem>.txt is a directory
CopyFails(txt, id) == TxtKind(txt, Stem(id)) = "dir"

\* lines 195-208 for one pair: the manifest line
ManifestLine(subset, id) ==
    [subset |-> subset, stem |-> Stem(id),
     image |-> ImageUniverse[id].name, txt |-> TxtName(Stem(id))]

\* lines 181-221; prs are the subset's pairs
build_subset(prs, subset, txt) ==
    LET failing == {i \in DOMAIN prs : CopyFails(txt, prs[i])}
        crash == failing # {}
        first == IF crash THEN CHOOSE i \in failing : \A j \in failing : i <= j
                 ELSE Len(prs) + 1
        done == SubSeq(prs, 1, first - 1)
        ops == {Mkdir(subset, "")}
               \cup {Mkdir(subset, Stem(done[i])) : i \in DOMAIN done}
               \cup {Copy(subset, Stem(done[i]), ImageUniverse[done[i]].name) : i \in DOMAIN done}
               \cup {Copy(subset, Stem(done[i]), TxtName(Stem(done[i]))) : i \in DOMAIN done}
               \cup (IF crash
                     THEN {Mkdir(subset, Stem(prs[first])),
                           Copy(subset, Stem(prs[first]), ImageUniverse[prs[first]].name)}
                     ELSE {})
               \cup (IF ~crash /\ prs # <<>> THEN {Write(subset)} ELSE {})
        list_pairs == [i \in DOMAIN done |-> ManifestLine(subset, done[i])]
    IN [crash |-> crash, ops |-> ops,
        list_pairs |-> list_pairs,
        written |-> ~crash /\ prs # <<>>]

-----------------------------------------------------------------------------
(* Getlist.py: main *)

NoManifests == [s \in SubsetNames |-> <<>>]
NoPrev == [split |-> NoSplit, manifests |-> NoManifests, inOrder |-> TRUE, startRng |-> 0]

IdleBatch ==
    /\ bpc = "idle" /\ json_count = 0 /\ target_labels = None /\ idx = 0
    /\ doc = [kind |-> "none"] /\ outcome = "none" /\ coordinates = <<>>
    /\ success_count = 0 /\ skip_count = 0 /\ error_count = 0
    /\ written = {} /\ tally = NoTally

\* the runs of main the model follows: train/val/test ratios as typed
MainRatios == {<<5000, 2500, 2500>>, <<5000, 5000, 5000>>}

ImageDirs ==
    {[ok |-> FALSE, entries |-> {}]}
    \cup {[ok |-> TRUE, entries |-> S] :
            S \in {T \in SUBSET ImageIds : Cardinality(T) <= MaxImages}}

TxtDirs ==
    {[ok |-> FALSE, kind |-> [s \in LabelStems |-> "absent"]]}
    \cup {[ok |-> TRUE, kind |-> k] :
            k \in {f \in [LabelStems -> {"absent", "file", "dir"}] :
                     \A s \in LabelStems : f[s] \in LabelKinds(s)}}

\* a process starts: argv, the directories and the generator's state are inputs.
\* When argv is rejected nothing else is read, so the rest is left at one value.
InitMain ==
    /\ pc = "start"
    /\ args \in {"usage", "badfloat", "ok"}
    /\ ratios \in IF args = "ok" THEN MainRatios ELSE {<<0, 0, 0>>}
    /\ imagesDir \in IF args = "ok" THEN ImageDirs ELSE {[ok |-> FALSE, entries |-> {}]}
    /\ txtDir \in IF args = "ok" THEN TxtDirs
                  ELSE {[ok |-> FALSE, kind |-> [s \in LabelStems |-> "absent"]]}
    /\ outRoot \in BOOLEAN
    /\ mutations = {}
    /\ inOrder = TRUE
    /\ pairs = <<>>
    /\ reported = [missing_txt |-> 0, extra_txt |-> {}]
    /\ rng \in 0..MaxStartRng
    /\ startRng = rng
    /\ split = NoSplit
    /\ manifests = NoManifests
    /\ exitReason = "none"
    /\ run = 1
    /\ prev = NoPrev
    /\ IdleBatch

\* lines 246-266: argv is checked, the ratios parsed, the output root created
Start ==
    /\ pc = "start"
    /\ IF args # "ok"
       THEN /\ pc' = "exit"
            /\ exitReason' = args
            /\ UNCHANGED <<outRoot, mutations>>
       ELSE /\ pc' = "collect"
            /\ outRoot' = TRUE
            /\ mutations' = IF outRoot THEN mutations ELSE mutations \cup {MkdirRoot}
            /\ UNCHANGED exitReason
    /\ UNCHANGED <<args, ratios, imagesDir, txtDir, inOrder, pairs, reported, rng,
                   startRng, split, manifests, run, prev>>
    /\ UNCHANGED batchVars

\* line 269: collect_pairs, over whatever order iterdir() returns
CollectPairs ==
    /\ pc = "collect"
    /\ \E order \in Orders(imagesDir.entries) :
         LET r == collect_pairs(imagesDir, txtDir, order)
         IN /\ inOrder' = (order = SortIds(imagesDir.entries))
            /\ pairs' = r.pairs
            /\ reported' = [missing_txt |-> r.missing_txt, extra_txt |-> r.extra_txt]
            /\ IF r.status = "ok"
               THEN pc' = "split" /\ UNCHANGED exitReason
               ELSE pc' = "exit" /\ exitReason' = r.status
    /\ UNCHANGED <<args, ratios, imagesDir, txtDir, outRoot, mutations, rng, startRng,
                   split, manifests, run, prev>>
    /\ UNCHANGED batchVars

\* lines 272-278
Split ==
    /\ pc = "split"
    /\ LET r == split_train_val_test(pairs, ratios[1], ratios[2], ratios[3], Seed, rng)
       IN /\ rng' = r.rng
          /\ split' = r
          /\ IF r.status = "ok"
             THEN pc' = "build_train" /\ UNCHANGED exitReason
             ELSE pc' = "exit" /\ exitReason' = r.status
    /\ UNCHANGED <<args, ratios, imagesDir, txtDir, outRoot, mutations, inOrder, pairs,
                   reported, startRng, manifests, run, prev>>
    /\ UNCHANGED batchVars

NextSubset(subset) ==
    CASE subset = "train" -> "build_val"
      [] subset = "val" -> "build_test"
      [] OTHER -> "done"

SubsetPairs(subset) ==
    CASE subset = "train" -> split.train
      [] subset = "val" -> split.val
      [] OTHER -> split.test

\* lines 281, 284, 287: one call of build_subset
BuildSubset(subset) ==
    /\ pc = IF subset = "train" THEN "build_train"
            ELSE IF subset = "val" THEN "build_val" ELSE "build_test"
    /\ LET r == build_subset(SubsetPairs(subset), subset, txtDir)
       IN /\ mutations' = mutations \cup r.ops
          /\ manifests' = IF r.written THEN [manifests EXCEPT ![subset] = r.list_pairs]
                          ELSE manifests
          /\ IF r.crash
             THEN pc' = "exit" /\ exitReason' = "CopyError"
             ELSE pc' = NextSubset(subset) /\ UNCHANGED exitReason
    /\ UNCHANGED <<args, ratios, imagesDir, txtDir, outRoot, inOrder, pairs, reported,
                   rng, startRng, split, run, prev>>
    /\ UNCHANGED batchVars

Build == \E subset \in SubsetNames : BuildSubset(subset)

\* the program is run again over the same directories with the same arguments
Rerun ==
    /\ pc = "done"
    /\ run < MaxRuns
    /\ run' = run + 1
    /\ prev' = [split |-> split, manifests |-> manifests,
                 inOrder |-> inOrder, startRng |-> startRng]
    /\ \E s \in 0..MaxStartRng : rng' = s /\ startRng' = s
    /\ pc' = "start"
    /\ mutations' = {}
    /\ pairs' = <<>>
    /\ reported' = [missing_txt |-> 0, extra_txt |-> {}]
    /\ split' = NoSplit
    /\ exitReason' = "none"
    /\ UNCHANGED <<args, ratios, imagesDir, txtDir, outRoot, inOrder, manifests>>
    /\ UNCHANGED batchVars

NextMain == Start \/ CollectPairs \/ Split \/ Build \/ Rerun

SpecMain == InitMain /\ [][NextMain]_vars

-----------------------------------------------------------------------------
(* split_train_val_test as a function of its inputs *)

RatioValues == {0, 1, 1000, 2000, 2500, 5000, 5008, 7000, 8000, One}
Totals == (1..MaxTotal) \cup {LargeTotal}

InitSplit ==
    /\ pc = "split"
    /\ args = "ok"
    /\ ratios \in RatioValues \X RatioValues \X RatioValues
    /\ imagesDir = [ok |-> TRUE, entries |-> {}]
    /\ txtDir = [ok |-> TRUE, kind |-> [s \in LabelStems |-> "absent"]]
    /\ outRoot = TRUE
    /\ mutations = {}
    /\ inOrder = TRUE
    /\ \E total \in Totals : pairs = [i \in 1..total |-> i]
    /\ reported = [missing_txt |-> 0, extra_txt |-> {}]
    /\ rng \in 0..MaxStartRng
    /\ startRng = rng
    /\ split = NoSplit
    /\ manifests = NoManifests
    /\ exitReason = "none"
    /\ run = 1
    /\ prev = NoPrev
    /\ IdleBatch

NextSplit == Split

SpecSplit == InitSplit /\ [][NextSplit]_vars

-----------------------------------------------------------------------------
(* GetPointCord.py: extract_target_points *)

P1 == <<10, 20>>
P2 == <<30, 40>>

Labels == {"weed", "Weed", "crop"}
ShapeTypes == {"point", "polygon"}
PointLists == {<<>>, <<P1>>, <<P2, P1>>}
Shapes == [label : Labels, shape_type : ShapeTypes, points : PointLists]

\* sequences of at most n shapes
ShapeSeqs(n) == UNION {[1..k -> Shapes] : k \in 0..n}

\* what a file <name>.json may be: absent (FileNotFoundError), unreadable (another
\* OSError of open), not JSON (JSONDecodeError), JSON that is no object (data.get
\* raises AttributeError), or an object with or without the key "shapes"
FailingDocuments ==
    {[kind |-> k] : k \in {"notfound", "unreadable", "invalid", "notobject"}}
ObjectDocuments(n) ==
    {[kind |-> "object", hasShapes |-> FALSE, shapes |-> <<>>]}
    \cup {[kind |-> "object", hasShapes |-> TRUE, shapes |-> ss] : ss \in ShapeSeqs(n)}

\* the label filters: None, or a list of labels
Filters == {None, <<"weed">>, <<"weed", "crop">>}

\* str.lower() on the labels of the model
LowerLabel(label) == IF label = "Weed" THEN "weed" ELSE label

\* a variant that compares labels without regard to case
LabelAccepted_IgnoreCase(label, labels) ==
    labels = None \/ LowerLabel(label) \in {LowerLabel(labels[i]) : i \in DOMAIN labels}

\* line 62: not (target_labels is not None and label not in target_labels)
LabelAccepted(label, labels) ==
    labels = None \/ label \in Range(labels)

\* lines 53-72: the loop over the shapes, from shape i on, appending to acc
RECURSIVE ExtractFrom(_, _, _, _)
ExtractFrom(shapes, i, labels, acc) ==
    IF i > Len(shapes) THEN acc
    ELSE LET shape == shapes[i]
         IN IF shape.shape_type # "point" THEN ExtractFrom(shapes, i + 1, labels, acc)
            ELSE IF ~LabelAccepted(shape.label, labels)
            THEN ExtractFrom(shapes, i + 1, labels, acc)
            ELSE IF shape.points = <<>> THEN ExtractFrom(shapes, i + 1, labels, acc)
            ELSE ExtractFrom(shapes, i + 1, labels, Append(acc, shape.points[1]))

\* the whole function: it returns the list, leaves through sys.exit(1), or
\* lets an exception of class Exception escape
extract_target_points(d, labels) ==
    CASE d.kind \in {"notfound", "invalid"} -> [status |-> "exit", points |-> <<>>]
      [] d.kind \in {"unreadable", "notobject"} -> [status |-> "raise", points |-> <<>>]
      [] OTHER ->
           [status |-> "return",
            points |-> ExtractFrom(IF d.hasShapes THEN d.shapes ELSE <<>>, 1, labels, <<>>)]

IdleMain ==
    /\ pc = "idle" /\ args = "ok" /\ ratios = <<0, 0, 0>>
    /\ imagesDir = [ok |-> FALSE, entries |-> {}]
    /\ txtDir = [ok |-> FALSE, kind |-> [s \in LabelStems |-> "absent"]]
    /\ outRoot = FALSE /\ mutations = {} /\ inOrder = TRUE /\ pairs = <<>>
    /\ reported = [missing_txt |-> 0, extra_txt |-> {}]
    /\ rng = 0 /\ startRng = 0 /\ split = NoSplit /\ manifests = NoManifests
    /\ exitReason = "none" /\ run = 1 /\ prev = NoPrev

\* extract_target_points applied to one document
InitExtract ==
    /\ IdleMain
    /\ bpc = "extract"
    /\ json_count = 1
    /\ target_labels \in Filters
    /\ idx = 0
    /\ doc \in FailingDocuments \cup ObjectDocuments(MaxShapes)
    /\ outcome = "none"
    /\ coordinates = <<>>
    /\ success_count = 0 /\ skip_count = 0 /\ error_count = 0
    /\ written = {}
    /\ tally = NoTally

Extract ==
    /\ bpc = "extract"
    /\ LET r == extract_target_points(doc, target_labels)
       IN /\ outcome' = r.status
          /\ coordinates' = r.points
    /\ bpc' = "extracted"
    /\ UNCHANGED <<json_count, target_labels, idx, doc, success_count, skip_count,
                   error_count, written, tally>>
    /\ UNCHANGED mainVars

NextExtract == Extract

SpecExtract == InitExtract /\ [][NextExtract]_vars

-----------------------------------------------------------------------------
(* Batch_GetPointCord.py: process_directory *)

BatchDocuments == FailingDocuments \cup ObjectDocuments(MaxBatchShapes)

InitBatch ==
    /\ IdleMain
    /\ bpc \in {"start", "nodir"}
    /\ json_count \in 0..MaxFiles
    /\ target_labels \in Filters
    /\ idx = 0
    /\ doc = [kind |-> "none"]
    /\ outcome = "none"
    /\ coordinates = <<>>
    /\ success_count = 0 /\ skip_count = 0 /\ error_count = 0
    /\ written = {}
    /\ tally = NoTally

\* lines 50-81: the directory is checked and listed, the counters start at 0
BatchStart ==
    /\ bpc \in {"start", "nodir"}
    /\ bpc' = IF bpc = "nodir" \/ json_count = 0 THEN "exit" ELSE "loop"
    /\ UNCHANGED <<json_count, target_labels, idx, doc, outcome, coordinates,
                   success_count, skip_count, error_count, written, tally>>
    /\ UNCHANGED mainVars

\* lines 84-106 for one document d; writable tells whether save_to_txt can
\* write the label file (it leaves through sys.exit(1) when it cannot).
\* sys.exit raises SystemExit, which "except Exception" does not catch.
VisitOutcome(d, labels, writable) ==
    LET r == extract_target_points(d, labels)
    IN CASE r.status = "exit" -> "abort"
         [] r.status = "raise" -> "error"
         [] r.points = <<>> -> "skip"
         [] ~writable -> "abort"
         [] OTHER -> "success"

VisitDocument ==
    /\ bpc = "loop"
    /\ idx < json_count
    /\ \E d \in BatchDocuments, writable \in BOOLEAN :
         LET r == extract_target_points(d, target_labels)
             o == VisitOutcome(d, target_labels, writable)
         IN /\ doc' = d
            /\ outcome' = o
            /\ coordinates' = r.points
            /\ success_count' = IF o = "success" THEN success_count + 1 ELSE success_count
            /\ skip_count' = IF o = "skip" THEN skip_count + 1 ELSE skip_count
            /\ error_count' = IF o = "error" THEN error_count + 1 ELSE error_count
            /\ written' = IF o = "success" THEN written \cup {idx + 1} ELSE written
            /\ bpc' = IF o = "abort" THEN "exit" ELSE "loop"
    /\ idx' = idx + 1
    /\ UNCHANGED <<json_count, target_labels, tally>>
    /\ UNCHANGED mainVars

\* lines 109-114
PrintTally ==
    /\ bpc = "loop"
    /\ idx = json_count
    /\ tally' = [printed |-> TRUE, success |-> success_count, skip |-> skip_count,
                 error |-> error_count]
    /\ bpc' = "done"
    /\ UNCHANGED <<json_count, target_labels, idx, doc, outcome, coordinates,
                   success_count, skip_count, error_count, written>>
    /\ UNCHANGED mainVars

NextBatch == BatchStart \/ VisitDocument \/ PrintTally

SpecBatch == InitBatch /\ [][NextBatch]_vars

-----------------------------------------------------------------------------
(* Properties of split_train_val_test, checked under SpecSplit *)

AllSplit == split.train \o split.val \o split.test

\* C1 (partition completeness): whenever split_train_val_test returns, train,
\* val and test are pairwise disjoint and together hold every input pair
\* exactly once.
C1_PartitionComplete ==
    split.status = "ok" =>
        /\ Len(AllSplit) = Len(pairs)
        /\ Range(AllSplit) = Range(pairs)
        /\ Cardinality(Range(AllSplit)) = Len(AllSplit)
        /\ Range(split.train) \cap Range(split.val) = {}
        /\ Range(split.train) \cap Range(split.test) = {}
        /\ Range(split.val) \cap Range(split.test) = {}

\* a split that returned after shuffling the pairs out of their order and
\* borrowing a unit for test
C1_Witness ==
    /\ split.status = "ok"
    /\ split.from = "train"
    /\ Len(pairs) = MaxTotal
    /\ AllSplit # pairs

\* C2 (non-empty splits): whenever split_train_val_test returns, each of train,
\* val and test is non-empty and has the size of its computed count.
C2_NonEmptySplits ==
    split.status = "ok" =>
        /\ split.train # <<>> /\ split.val # <<>> /\ split.test # <<>>
        /\ Len(split.train) = split.train_count
        /\ Len(split.val) = split.val_count
        /\ Len(split.test) = split.test_count

-----------------------------------------------------------------------------
(* Properties of extract_target_points, checked under SpecExtract *)

DocShapes == IF doc.hasShapes THEN doc.shapes ELSE <<>>

\* the positions of the shapes the filter keeps
Kept ==
    {i \in DOMAIN DocShapes :
        /\ DocShapes[i].shape_type = "point"
        /\ \/ target_labels = None
           \/ \E k \in DOMAIN target_labels : target_labels[k] = DocShapes[i].label
        /\ Len(DocShapes[i].points) > 0}

\* C4 (extraction filter): the result is exactly the first point of each shape
\* of type "point" with an accepted label (exact, case-sensitive) and a
\* non-empty points list, in document order, duplicates kept.
C4_ExtractionFilter ==
    (bpc = "extracted" /\ doc.kind = "object") =>
        /\ outcome = "return"
        /\ Len(coordinates) = Cardinality(Kept)
        /\ \A i \in Kept :
             coordinates[Cardinality({j \in Kept : j <= i})] = DocShapes[i].points[1]

\* a label differing only in case is rejected, the first of two points is
\* taken, and a coordinate met twice is kept twice
C4_Witness ==
    /\ bpc = "extracted"
    /\ target_labels = <<"weed">>
    /\ doc.kind = "object"
    /\ \E i \in DOMAIN DocShapes :
         /\ DocShapes[i].label = "Weed" /\ DocShapes[i].shape_type = "point"
         /\ DocShapes[i].points # <<>>
    /\ coordinates \in {<<P2>>, <<P1, P1>>}

-----------------------------------------------------------------------------
(* Properties of process_directory, checked under SpecBatch *)

\* C3 (batch resilience): a document that is missing, unreadable or not valid
\* JSON never aborts the batch: it is counted as an error and the loop goes
\* on; the batch ends by printing the tally after the last document.
C3_BatchResilience ==
    /\ (idx > 0 /\ doc.kind \in {"notfound", "unreadable", "invalid"}) =>
          outcome = "error" /\ bpc # "exit"
    /\ bpc = "done" => tally.printed /\ idx = json_count

\* C8 (batch tally): every visited document increments exactly one counter,
\* the tally adds up to the number of JSON files, and a document yielding no
\* coordinates is skipped (not an error) and gets no label file.
C8_BatchTally ==
    /\ bpc \in {"loop", "done", "exit"} => success_count + skip_count + error_count = idx
    /\ tally.printed => tally.success + tally.skip + tally.error = json_count
    /\ (idx > 0 /\ doc.kind = "object" /\ Kept = {}) =>
          outcome = "skip" /\ idx \notin written

-----------------------------------------------------------------------------
(* Properties of a run of Getlist.py, checked under SpecMain *)

\* C5 (partition determinism): a second run over the same files with the same
\* ratios and seed yields the same train, val and test sequences and the same
\* manifests, whatever order the directory is listed in and whatever state the
\* generator starts in.
C5_Determinism ==
    run > 1 =>
        /\ split.status = "ok" =>
              /\ prev.split.status = "ok"
              /\ split.train = prev.split.train
              /\ split.val = prev.split.val
              /\ split.test = prev.split.test
        /\ pc = "done" => manifests = prev.manifests

\* a second complete run that listed the directory in another order and
\* started from another generator state
C5_Witness ==
    /\ run = 2
    /\ pc = "done"
    /\ inOrder # prev.inOrder
    /\ startRng # prev.startRng
    /\ Len(pairs) >= 3

CollectRan == pc \in {"split", "build_train", "build_val", "build_test", "done"}
                 \/ (pc = "exit" /\ exitReason \notin {"usage", "badfloat", "DirectoryNotFound"})

\* the supported image files whose stem has a file <stem>.txt in the label directory
Matched ==
    {id \in imagesDir.entries : is_image_file(id) /\ TxtKind(txtDir, Stem(id)) = "file"}

\* C6 (pairing): collect_pairs returns exactly one pair for each supported image
\* file with a same-stem .txt file and none for any other image; a label file
\* without image is only reported; the run fails with NoValidPairs exactly when
\* the pair list is empty.
C6_Pairing ==
    CollectRan =>
        /\ Range(pairs) = Matched
        /\ Len(pairs) = Cardinality(Matched)
        /\ (pc = "exit" /\ exitReason = "NoValidPairs") <=> pairs = <<>>
        /\ reported.extra_txt =
              {s \in LabelStems : txtDir.kind[s] = "file"} \ {Stem(id) : id \in Matched}

FatalReasons == {"DirectoryNotFound", "NoValidPairs", "InvalidRatio", "InsufficientSamples"}

\* C7 (fatal conditions precede side effects): when the run ends with a fatal
\* partition-stage condition, nothing has been created, copied or written.
C7_FatalBeforeSideEffects ==
    (pc = "exit" /\ exitReason \in FatalReasons) => mutations = {}

AllLines == manifests["train"] \o manifests["val"] \o manifests["test"]

\* C10 (one sample, one place): after a complete run the manifests hold one
\* line per collected pair, every stem and every label file is in exactly one
\* line, and no two pairs share a per-sample directory.
C10_OneSampleOnePlace ==
    pc = "done" =>
        /\ Len(AllLines) = Len(pairs)
        /\ \A i \in DOMAIN pairs :
             Cardinality({k \in DOMAIN AllLines :
                            AllLines[k].image = ImageUniverse[pairs[i]].name}) = 1
        /\ \A i \in DOMAIN pairs :
             /\ Cardinality({k \in DOMAIN AllLines : AllLines[k].stem = Stem(pairs[i])}) = 1
             /\ Cardinality({k \in DOMAIN AllLines :
                               AllLines[k].txt = TxtName(Stem(pairs[i]))}) = 1
        /\ \A k, l \in DOMAIN AllLines :
             (k # l /\ AllLines[k].subset = AllLines[l].subset)
                => AllLines[k].stem # AllLines[l].stem

=============================================================================
